---- MODULE Spec2Model ----
(***************************************************************************)
(* Instagram DM server (FastAPI + instagrapi): the credential cipher's key *)
(* files, the session file, the process-wide InstagramClient singleton and *)
(* the route handlers that drive them.                                     *)
(*                                                                         *)
(* Every route handler of main.py is an `async def` that contains no       *)
(* `await`: once the event loop has started a handler it runs it to its    *)
(* return or raise before it starts another one.  A handler is modelled as *)
(* a sequence of steps (one per statement that touches shared state or the *)
(* upstream), and the event loop as the guard LoopFree on starting one.    *)
(***************************************************************************)
EXTENDS Integers, Sequences, FiniteSets, TLC

VARIABLES
    user,         \* InstagramClient._logged_in_user
    client,       \* InstagramClient.client, the instagrapi Client object
    sessionFile,  \* .ig_session.json on durable storage
    privKey,      \* .keys/private.pem (0 = no file, k = PEM of key pair k)
    pubKey,       \* .keys/public.pem  (0 = no file, k = PEM of key pair k)
    keyGens,      \* number of rsa.generate_private_key calls in this process
    upValid,      \* upstream: accounts whose session cookies are still valid
    pc,           \* position of every request's handler
    kind,         \* the route a request was sent to
    fr,           \* locals of every handler that is running
    running,      \* the handler the event loop is executing
    issued,       \* public keys handed out by GET /auth/public-key, in order
    bootKeys,     \* which key files were on storage when the process started
    faulty,       \* whether durable storage may fail during this run
    norm          \* a parsers.py call: its arguments and what it returned

vars == <<user, client, sessionFile, privKey, pubKey, keyGens, upValid,
          pc, kind, fr, running, issued, bootKeys, faulty, norm>>

-----------------------------------------------------------------------------
(* Bounds and input domains *)

MaxReqs == 2

Lifespan == 0
Reqs == 0..MaxReqs
NoReq == -1

None == "None"
Accounts == {"alice", "bob"}
Passwords == {"pw_alice", "pw_bob"}

\* the upstream's view of the accounts
CorrectPassword(a) == IF a = "alice" THEN "pw_alice" ELSE "pw_bob"
UpstreamPk(a) == IF a = "alice" THEN 1001 ELSE 1002
account_info(a) == [pk |-> UpstreamPk(a), username |-> a]

\* a key pair that is not the server's
ForeignKey == 99
BootKeyId == 1
NewKeyId == keyGens + 2

-----------------------------------------------------------------------------
(* Values *)

NoUser == [pk |-> None, username |-> None]
parse_user(info) == [pk |-> ToString(info.pk), username |-> info.username]

FreshClient == [st |-> "fresh", acct |-> None]
NoFile == [kind |-> "absent", acct |-> None]
CorruptFile == [kind |-> "corrupt", acct |-> None]
Blob(a) == [kind |-> "blob", acct |-> a]

EmptyEnc == [kind |-> "empty", k |-> 0, p |-> ""]
GarbageEnc == [kind |-> "garbage", k |-> 0, p |-> ""]
Cipher(k, p) == [kind |-> "cipher", k |-> k, p |-> p]
\* plaintext bytes that are not valid utf-8
NonText == "\\xff"

\* instagrapi records as parsers.py reads them.  An identifier is an
\* integer (NoneId for None), a timestamp an integer (NoTime for None), a
\* string field is None when the upstream left it out.
NoneId == -1
NoTime == 0
NoMedia == [ref |-> FALSE, video_url |-> None, thumbnail_url |-> None]
Media(v, t) == [ref |-> TRUE, video_url |-> v, thumbnail_url |-> t]
NoLink == [has |-> FALSE, url |-> None, title |-> None]
NoMessage ==
    [user_id |-> NoneId, item_type |-> None, text |-> None,
     timestamp |-> NoTime, media |-> NoMedia, link |-> NoLink]
NoThread ==
    [thread_title |-> None, users |-> <<>>, messages |-> <<>>,
     last_activity_at |-> NoTime]

\* the normalized records of models/
NoDirectMessage ==
    [user_id |-> None, timestamp |-> NoTime, item_type |-> None,
     text |-> None, is_sent_by_viewer |-> FALSE, media_url |-> None,
     media_type |-> None, link_url |-> None, link_title |-> None]
NoDirectThread ==
    [thread_title |-> None, users |-> <<>>, last_activity_at |-> NoTime,
     messages |-> <<>>]
NoPreview ==
    [thread_title |-> None, users |-> <<>>, last_message_text |-> None,
     last_message_type |-> None, last_message_timestamp |-> NoTime]

\* no parsers.py function has been called
NoCall ==
    [stage |-> "off", op |-> None, pk |-> None, msg |-> NoMessage,
     thread |-> NoThread, message |-> NoDirectMessage,
     detail |-> NoDirectThread, preview |-> NoPreview]

\* the limit query parameter of GET /inbox and GET /thread/{thread_id}
DefaultLimit == 20
MinLimit == 1
MaxLimit == 100
Limits == {-1, 0, MinLimit, DefaultLimit, MaxLimit, MaxLimit + 1}

\* the {username} path parameter of POST /send/{username} and
\* GET /user/{username}, character by character
Handles == {<<"b", "o", "b">>, <<"@", "b", "o", "b">>,
            <<"@", "@", "b", "o", "b">>, <<"b", "@", "o">>}

RouteKinds == {"login", "logout", "inbox", "thread", "send", "send_user",
               "search", "public_key", "health"}
DMKinds == {"inbox", "thread", "send", "send_user", "search"}

EmptyFrame ==
    [username |-> "", password |-> "", enc |-> EmptyEnc, pw |-> "",
     ret |-> None, key |-> 0, lu |-> NoUser, success |-> None,
     error |-> None, u |-> NoUser, trace |-> <<>>, result |-> None,
     file0 |-> NoFile, user0 |-> NoUser, client0 |-> FreshClient,
     probe |-> None, fresh |-> None, saved |-> FALSE, tidOk |-> TRUE,
     limit |-> DefaultLimit, amount |-> 0, saveError |-> FALSE,
     handle |-> <<>>, target |-> <<>>]

\* the test looks at the connection instead of the Identity
is_authenticatedByConnection == client.st = "live"

is_authenticated == user # NoUser
get_current_user == user

-----------------------------------------------------------------------------
(* Event loop *)

\* handlers declared with plain `def`: FastAPI runs them on worker threads
LoopFreeThreaded == TRUE

LoopFree == running = NoReq

Goto(r, l) == pc' = [pc EXCEPT ![r] = l]
Set(r, f) == fr' = [fr EXCEPT ![r] = f]

\* The process has imported its modules: the singleton exists, nobody is
\* logged in, and storage holds whatever an earlier run left behind.
Boot(storageFails) ==
    /\ user = NoUser
    /\ client = FreshClient
    /\ sessionFile \in {NoFile, CorruptFile} \cup {Blob(a) : a \in Accounts}
    /\ bootKeys \in {"none", "both", "private_only"}
    /\ privKey = IF bootKeys = "none" THEN 0 ELSE BootKeyId
    /\ pubKey = IF bootKeys = "both" THEN BootKeyId ELSE 0
    /\ keyGens = 0
    /\ upValid \in SUBSET ({sessionFile.acct} \cap Accounts)
    /\ pc = [r \in Reqs |-> IF r = Lifespan THEN "ls_keys" ELSE "idle"]
    /\ kind = [r \in Reqs |-> IF r = Lifespan THEN "lifespan" ELSE None]
    /\ fr = [r \in Reqs |-> EmptyFrame]
    /\ running = Lifespan
    /\ issued = <<>>
    /\ faulty = storageFails
    /\ norm = NoCall

Init == Boot(FALSE)

\* the same process on storage whose session-file operations may fail
InitFaults == Boot(TRUE)

-----------------------------------------------------------------------------
(* Event loop: arrival, dispatch and reply *)

\* A client sends a request while the server is listening (uvicorn binds
\* its sockets once lifespan startup has completed); the request waits in
\* the loop's queue.
Arrive(r) ==
    /\ r # Lifespan
    /\ pc[r] = "idle"
    /\ \A q \in 1..(r - 1) : pc[q] # "idle"
    /\ pc[Lifespan] = "done"
    /\ Goto(r, "pending")
    /\ UNCHANGED <<user, client, sessionFile, privKey, pubKey, keyGens,
                   upValid, kind, fr, running, issued, bootKeys, faulty, norm>>

EntryPc(k) ==
    CASE k = "login" -> "lg_pw"
      [] k = "logout" -> "lo_delete"
      [] k = "public_key" -> "pk_get"
      [] k = "health" -> "h_read"
      [] OTHER -> "dm_enter"

\* The request body and path parameters, read when the handler is entered.
LoginBodies ==
    { [username |-> a, password |-> p, enc |-> EmptyEnc] :
        a \in Accounts, p \in Passwords \cup {""} }
    \cup
    UNION { { [username |-> a, password |-> p, enc |-> e] :
                p \in {"", CorrectPassword(a)},
                e \in {GarbageEnc}
                        \cup {Cipher(key, q) : key \in {pubKey, ForeignKey},
                                               q \in Passwords}
                        \cup {Cipher(pubKey, NonText)} } :
            a \in Accounts }

RequestArgs(k) ==
    IF k = "login"
    THEN { [EmptyFrame EXCEPT !.username = b.username,
                              !.password = b.password,
                              !.enc = b.enc] : b \in LoginBodies }
    ELSE IF k = "inbox"
    THEN { [EmptyFrame EXCEPT !.limit = l] : l \in Limits }
    ELSE IF k = "thread"
    THEN { [EmptyFrame EXCEPT !.tidOk = b, !.limit = l] :
             b \in BOOLEAN, l \in Limits }
    ELSE IF k = "send"
    THEN { [EmptyFrame EXCEPT !.tidOk = b] : b \in BOOLEAN }
    ELSE IF k \in {"send_user", "search"}
    THEN { [EmptyFrame EXCEPT !.handle = h] : h \in Handles }
    ELSE { EmptyFrame }

\* The event loop dispatches a waiting request: the route is matched and
\* the handler entered.
Start(r) ==
    /\ pc[r] = "pending"
    /\ \A q \in 1..(r - 1) : pc[q] # "pending"
    /\ LoopFree
    /\ running' = r
    /\ \E k \in RouteKinds :
          /\ kind' = [kind EXCEPT ![r] = k]
          /\ \E f \in RequestArgs(k) :
                Set(r, [f EXCEPT !.file0 = sessionFile, !.user0 = user,
                                 !.client0 = client])
          /\ Goto(r, EntryPc(k))
    /\ UNCHANGED <<user, client, sessionFile, privKey, pubKey, keyGens,
                   upValid, issued, bootKeys, faulty, norm>>

\* The handler has returned or raised; the response goes out.
Reply(r) ==
    /\ pc[r] = "reply"
    /\ Goto(r, "done")
    /\ Set(r, EmptyFrame)
    /\ kind' = [kind EXCEPT ![r] = None]
    /\ running' = NoReq
    /\ UNCHANGED <<user, client, sessionFile, privKey, pubKey, keyGens,
                   upValid, issued, bootKeys, faulty, norm>>

-----------------------------------------------------------------------------
(* crypto.py *)

\* the existence test looks at a path that is never written
KeysExistWrongPath == FALSE

\* one key file is enough for the pair to count as there
KeysExistEither == privKey # 0 \/ pubKey # 0

KeysExist == privKey # 0 /\ pubKey # 0

\* ensure_keys_exist: the existence test, then generation
EnsureKeysCheck(r) ==
    /\ pc[r] = "ek_check"
    /\ IF KeysExist
       THEN /\ Goto(r, fr[r].ret)
            /\ UNCHANGED <<fr, keyGens>>
       ELSE /\ Set(r, [fr[r] EXCEPT !.key = NewKeyId])
            /\ keyGens' = keyGens + 1
            /\ Goto(r, "ek_wpriv")
    /\ UNCHANGED <<user, client, sessionFile, privKey, pubKey, upValid,
                   kind, running, issued, bootKeys, faulty, norm>>

EnsureKeysWritePrivate(r) ==
    /\ pc[r] = "ek_wpriv"
    /\ privKey' = fr[r].key
    /\ Goto(r, "ek_wpub")
    /\ UNCHANGED <<user, client, sessionFile, pubKey, keyGens, upValid,
                   kind, fr, running, issued, bootKeys, faulty, norm>>

EnsureKeysWritePublic(r) ==
    /\ pc[r] = "ek_wpub"
    /\ pubKey' = fr[r].key
    /\ Goto(r, fr[r].ret)
    /\ UNCHANGED <<user, client, sessionFile, privKey, keyGens, upValid,
                   kind, fr, running, issued, bootKeys, faulty, norm>>

\* GET /auth/public-key: get_public_key_pem
PublicKeyEnter(r) ==
    /\ pc[r] = "pk_get"
    /\ Set(r, [fr[r] EXCEPT !.ret = "pk_read"])
    /\ Goto(r, "ek_check")
    /\ UNCHANGED <<user, client, sessionFile, privKey, pubKey, keyGens,
                   upValid, kind, running, issued, bootKeys, faulty, norm>>

PublicKeyRead(r) ==
    /\ pc[r] = "pk_read"
    /\ Set(r, [fr[r] EXCEPT !.key = pubKey, !.result = "200"])
    /\ issued' = Append(issued, pubKey)
    /\ Goto(r, "reply")
    /\ UNCHANGED <<user, client, sessionFile, privKey, pubKey, keyGens,
                   upValid, kind, running, bootKeys, faulty, norm>>

\* the encrypted field is consulted only when no plaintext password came
UsesEncryptedUnlessPlain(f) == f.enc.kind # "empty" /\ f.password = ""

\* if request.encrypted_password:
UsesEncrypted(f) == f.enc.kind # "empty"

\* decrypt_password, entered from the login route
DecryptEnter(r) ==
    /\ pc[r] = "lg_pw"
    /\ UsesEncrypted(fr[r])
    /\ Set(r, [fr[r] EXCEPT !.ret = "dec"])
    /\ Goto(r, "ek_check")
    /\ UNCHANGED <<user, client, sessionFile, privKey, pubKey, keyGens,
                   upValid, kind, running, issued, bootKeys, faulty, norm>>

\* OAEP is opened with a hash the CLI did not use: no ciphertext opens
DecryptsOtherHash(e) == FALSE

\* b64decode, OAEP decrypt under the persisted private key, utf-8 decode
Decrypts(e) == e.kind = "cipher" /\ e.k = privKey /\ e.p # NonText

Decrypt(r) ==
    /\ pc[r] = "dec"
    /\ IF Decrypts(fr[r].enc)
       THEN /\ Set(r, [fr[r] EXCEPT !.pw = fr[r].enc.p])
            /\ Goto(r, "cl_login")
       ELSE /\ Set(r, [fr[r] EXCEPT !.result = "400",
                          !.error = "Failed to decrypt password"])
            /\ Goto(r, "reply")
    /\ UNCHANGED <<user, client, sessionFile, privKey, pubKey, keyGens,
                   upValid, kind, running, issued, bootKeys, faulty, norm>>

-----------------------------------------------------------------------------
(* main.py: lifespan, health, login and logout routes *)

LifespanKeys(r) ==
    /\ pc[r] = "ls_keys"
    /\ Set(r, [fr[r] EXCEPT !.ret = "ls_env"])
    /\ Goto(r, "ek_check")
    /\ UNCHANGED <<user, client, sessionFile, privKey, pubKey, keyGens,
                   upValid, kind, running, issued, bootKeys, faulty, norm>>

\* IG_USERNAME / IG_PASSWORD: auto-login only when both are set
LifespanEnv(r) ==
    /\ pc[r] = "ls_env"
    /\ \/ /\ Set(r, [fr[r] EXCEPT !.result = "started"])
          /\ Goto(r, "reply")
       \/ \E a \in Accounts, p \in Passwords :
             /\ Set(r, [fr[r] EXCEPT !.username = a, !.pw = p,
                                     !.file0 = sessionFile])
             /\ Goto(r, "cl_login")
    /\ UNCHANGED <<user, client, sessionFile, privKey, pubKey, keyGens,
                   upValid, kind, running, issued, bootKeys, faulty, norm>>

Health(r) ==
    /\ pc[r] = "h_read"
    /\ Set(r, [fr[r] EXCEPT !.u = get_current_user,
                            !.success = IF is_authenticated THEN "true"
                                        ELSE "false",
                            !.result = "200"])
    /\ Goto(r, "reply")
    /\ UNCHANGED <<user, client, sessionFile, privKey, pubKey, keyGens,
                   upValid, kind, running, issued, bootKeys, faulty, norm>>

\* the plaintext branch and the missing-password branch of the login route
LoginPlain(r) ==
    /\ pc[r] = "lg_pw"
    /\ ~UsesEncrypted(fr[r])
    /\ IF fr[r].password # ""
       THEN /\ Set(r, [fr[r] EXCEPT !.pw = fr[r].password])
            /\ Goto(r, "cl_login")
       ELSE /\ Set(r, [fr[r] EXCEPT !.result = "400",
              !.error = "Either password or encrypted_password is required"])
            /\ Goto(r, "reply")
    /\ UNCHANGED <<user, client, sessionFile, privKey, pubKey, keyGens,
                   upValid, kind, running, issued, bootKeys, faulty, norm>>

-----------------------------------------------------------------------------
(* instagram/session.py *)

\* whether this storage operation goes through
StorageOutcomes == IF faulty THEN BOOLEAN ELSE {TRUE}

\* load_session: TRUE iff the file exists and load_settings parses it
LoadsSession(file, io) == file.kind = "blob" /\ io

\* dump_settings is never reached
save_sessionSkipped(file, c, io) == file

\* save_session: dump_settings overwrites the file; an error is swallowed
save_session(file, c, io) == IF io THEN Blob(c.acct) ELSE file

\* dump_settings is called outside the try block
save_sessionUnguarded(io) == ~io

\* save_session's `except Exception` logs a warning: nothing is raised
save_sessionRaises(io) == FALSE

\* the unlink is never reached
delete_sessionSkipped(file, io) == file

\* delete_session: unlink if the file exists; an error is swallowed
delete_session(file, io) == IF file.kind # "absent" /\ io THEN NoFile ELSE file

-----------------------------------------------------------------------------
(* instagram/auth.py: login(client, username, password) *)

FreshFailures == {"BadPassword", "ChallengeRequired", "TwoFactorRequired",
                  "PleaseWaitFewMinutes", "Exception"}

\* str(e): the text the upstream put into the exception
ExceptionText(e) == "instagrapi: " \o e

\* a single `except Exception as e` clause answers every failure
LoginErrorRaw(e) == ExceptionText(e)

LoginError(e) ==
    CASE e = "BadPassword" -> "Invalid password"
      [] e = "ChallengeRequired" ->
           "Challenge required - please verify your account in the Instagram app"
      [] e = "TwoFactorRequired" ->
           "Two-factor authentication required - not yet supported"
      [] e = "PleaseWaitFewMinutes" ->
           "Rate limited - please wait a few minutes and try again"
      [] OTHER -> ExceptionText(e)

\* InstagramClient.login hands self.client to auth.login
ClientLogin(r) ==
    /\ pc[r] = "cl_login"
    /\ Goto(r, "al_load")
    /\ UNCHANGED <<user, client, sessionFile, privKey, pubKey, keyGens,
                   upValid, kind, fr, running, issued, bootKeys, faulty, norm>>

\* if load_session(client):
AuthLoad(r) ==
    /\ pc[r] = "al_load"
    /\ \E io \in StorageOutcomes :
          IF LoadsSession(sessionFile, io)
          THEN /\ client' = [st |-> "loaded", acct |-> sessionFile.acct]
               /\ Goto(r, "al_feed")
          ELSE /\ client' = client
               /\ Goto(r, "al_fresh")
    /\ UNCHANGED <<user, sessionFile, privKey, pubKey, keyGens, upValid,
                   kind, fr, running, issued, bootKeys, faulty, norm>>

\* client.get_timeline_feed(): the validity probe
AuthProbeFeed(r) ==
    /\ pc[r] = "al_feed"
    /\ \E o \in {"ok", "LoginRequired", "Exception"} :
          /\ o = "ok" => client.acct \in upValid
          /\ o = "LoginRequired" => client.acct \notin upValid
          /\ Set(r, [fr[r] EXCEPT
                       !.trace = Append(@, "get_timeline_feed"),
                       !.probe = IF o = "ok" THEN @ ELSE o])
          /\ Goto(r, IF o = "ok" THEN "al_acct" ELSE "al_fresh")
    /\ UNCHANGED <<user, client, sessionFile, privKey, pubKey, keyGens,
                   upValid, kind, running, issued, bootKeys, faulty, norm>>

\* the restore branch does not return and falls through to the fresh login
AfterProbeFallsThrough == "al_fresh"

\* where auth.login goes once the probe has returned the account
AfterProbe == "cl_set"

\* the account of the request is looked up instead
ProbedAccountOfRequest(c, username) == username

\* client.account_info() takes no argument: the account is the session's
ProbedAccount(c, username) == c.acct

\* client.account_info() and parse_user on the restored session
AuthProbeAccount(r) ==
    /\ pc[r] = "al_acct"
    /\ \/ /\ Set(r, [fr[r] EXCEPT
                       !.trace = Append(@, "account_info"),
                       !.probe = "ok",
                       !.u = parse_user(account_info(
                                ProbedAccount(client, fr[r].username))),
                       !.success = "true"])
          /\ client' = [client EXCEPT !.st = "live"]
          /\ Goto(r, AfterProbe)
       \/ /\ Set(r, [fr[r] EXCEPT
                       !.trace = Append(@, "account_info"),
                       !.probe = "Exception"])
          /\ client' = client
          /\ Goto(r, "al_fresh")
    /\ UNCHANGED <<user, sessionFile, privKey, pubKey, keyGens, upValid,
                   kind, running, issued, bootKeys, faulty, norm>>

\* client.login(username, password)
AuthFresh(r) ==
    /\ pc[r] = "al_fresh"
    /\ \/ /\ fr[r].pw = CorrectPassword(fr[r].username)
          /\ Set(r, [fr[r] EXCEPT !.trace = Append(@, "login"),
                                  !.fresh = "ok"])
          /\ client' = [st |-> "live", acct |-> fr[r].username]
          /\ upValid' = upValid \cup {fr[r].username}
          /\ Goto(r, "al_info")
       \/ \E e \in FreshFailures :
             /\ e = "BadPassword" => fr[r].pw # CorrectPassword(fr[r].username)
             /\ Set(r, [fr[r] EXCEPT !.trace = Append(@, "login"),
                                     !.fresh = e,
                                     !.success = "false",
                                     !.error = LoginError(e),
                                     !.u = NoUser])
             /\ client' = [st |-> "dirty", acct |-> None]
             /\ upValid' = upValid
             /\ Goto(r, "cl_set")
    /\ UNCHANGED <<user, sessionFile, privKey, pubKey, keyGens,
                   kind, running, issued, bootKeys, faulty, norm>>

\* client.account_info() and parse_user after the fresh login
AuthInfo(r) ==
    /\ pc[r] = "al_info"
    /\ \/ /\ Set(r, [fr[r] EXCEPT
                       !.trace = Append(@, "account_info"),
                       !.u = parse_user(account_info(client.acct))])
          /\ Goto(r, "al_save")
       \/ \E e \in FreshFailures :
             /\ Set(r, [fr[r] EXCEPT
                          !.trace = Append(@, "account_info"),
                          !.fresh = e,
                          !.success = "false",
                          !.error = LoginError(e),
                          !.u = NoUser])
             /\ Goto(r, "cl_set")
    /\ UNCHANGED <<user, client, sessionFile, privKey, pubKey, keyGens,
                   upValid, kind, running, issued, bootKeys, faulty, norm>>

\* save_session(client); return True, None, user
AuthSave(r) ==
    /\ pc[r] = "al_save"
    /\ \E io \in StorageOutcomes :
          /\ sessionFile' = save_session(sessionFile, client, io)
          /\ IF save_sessionRaises(io)
             THEN Set(r, [fr[r] EXCEPT !.saved = TRUE, !.saveError = TRUE,
                                       !.fresh = "Exception",
                                       !.success = "false",
                                       !.error = LoginError("Exception"),
                                       !.u = NoUser])
             ELSE Set(r, [fr[r] EXCEPT !.saved = TRUE, !.saveError = ~io,
                                       !.success = "true"])
    /\ Goto(r, "cl_set")
    /\ UNCHANGED <<user, client, privKey, pubKey, keyGens, upValid,
                   kind, running, issued, bootKeys, faulty, norm>>

-----------------------------------------------------------------------------
(* instagram/client.py: InstagramClient *)

\* the assignment is made without looking at success
InstallsAlways(f) == TRUE

\* if success: self._logged_in_user = user
Installs(f) == f.success = "true"

\* login returns (success, error) to the route or to lifespan
ClientSet(r) ==
    /\ pc[r] = "cl_set"
    /\ user' = IF Installs(fr[r]) THEN fr[r].u ELSE user
    /\ Set(r, [fr[r] EXCEPT !.result =
                 IF kind[r] = "lifespan" THEN "started"
                 ELSE IF fr[r].success = "true" THEN "200" ELSE "401"])
    /\ Goto(r, "reply")
    /\ UNCHANGED <<client, sessionFile, privKey, pubKey, keyGens, upValid,
                   kind, running, issued, bootKeys, faulty, norm>>

\* logout: delete_session()
LogoutDelete(r) ==
    /\ pc[r] = "lo_delete"
    /\ \E io \in StorageOutcomes :
          sessionFile' = delete_session(sessionFile, io)
    /\ Goto(r, "lo_client")
    /\ UNCHANGED <<user, client, privKey, pubKey, keyGens, upValid,
                   kind, fr, running, issued, bootKeys, faulty, norm>>

\* logout: self.client = Client()
LogoutClient(r) ==
    /\ pc[r] = "lo_client"
    /\ client' = FreshClient
    /\ Goto(r, "lo_clear")
    /\ UNCHANGED <<user, sessionFile, privKey, pubKey, keyGens, upValid,
                   kind, fr, running, issued, bootKeys, faulty, norm>>

\* logout: self._logged_in_user = None
LogoutClear(r) ==
    /\ pc[r] = "lo_clear"
    /\ user' = NoUser
    /\ Set(r, [fr[r] EXCEPT !.result = "200"])
    /\ Goto(r, "reply")
    /\ UNCHANGED <<client, sessionFile, privKey, pubKey, keyGens, upValid,
                   kind, running, issued, bootKeys, faulty, norm>>

-----------------------------------------------------------------------------
(* instagram/messages.py behind the InstagramClient DM methods *)

Max(a, b) == IF a >= b THEN a ELSE b
Min(a, b) == IF a <= b THEN a ELSE b

\* the two bounds are applied in the other order
ClampSwapped(limit) == Max(Min(limit, MinLimit), MaxLimit)

\* limit = min(max(limit, 1), 100)
Clamp(limit) == Min(Max(limit, MinLimit), MaxLimit)

\* how many copies of c the string s starts with
RECURSIVE Leading(_, _)
Leading(s, c) ==
    IF s # <<>> /\ Head(s) = c THEN 1 + Leading(Tail(s), c) ELSE 0

\* only the first character is looked at
lstripOnce(s, c) == IF s # <<>> /\ Head(s) = c THEN Tail(s) ELSE s

\* str.lstrip with a one-character argument
lstrip(s, c) == SubSeq(s, Leading(s, c) + 1, Len(s))

\* the route clamps limit and passes it on as amount, or strips the handle
\* and passes it on as username; the method passes self.client and
\* self._logged_in_user to the function
DmEnter(r) ==
    /\ pc[r] = "dm_enter"
    /\ Set(r, [fr[r] EXCEPT !.lu = user,
                            !.amount = IF kind[r] \in {"inbox", "thread"}
                                       THEN Clamp(fr[r].limit) ELSE @,
                            !.target = IF kind[r] \in {"send_user", "search"}
                                       THEN lstrip(fr[r].handle, "@") ELSE @])
    /\ Goto(r, "dm_check")
    /\ UNCHANGED <<user, client, sessionFile, privKey, pubKey, keyGens,
                   upValid, kind, running, issued, bootKeys, faulty, norm>>

\* the guard is missing
NotLoggedInUnchecked(lu) == FALSE

\* if not logged_in_user: raise LoginRequired("Not logged in")
NotLoggedIn(lu) == lu = NoUser

\* the check, and int(thread_id) for the two thread operations
DmCheck(r) ==
    /\ pc[r] = "dm_check"
    /\ IF NotLoggedIn(fr[r].lu)
       THEN /\ Set(r, [fr[r] EXCEPT !.result = "401",
                                    !.error = "LoginRequired"])
            /\ Goto(r, "reply")
       ELSE IF kind[r] \in {"thread", "send"} /\ ~fr[r].tidOk
       THEN /\ Set(r, [fr[r] EXCEPT !.result = "failed",
                                    !.error = "ValueError"])
            /\ Goto(r, "reply")
       ELSE /\ fr' = fr
            /\ Goto(r, "dm_call")
    /\ UNCHANGED <<user, client, sessionFile, privKey, pubKey, keyGens,
                   upValid, kind, running, issued, bootKeys, faulty, norm>>

FirstCall(k) ==
    CASE k = "inbox" -> "direct_threads"
      [] k = "thread" -> "direct_thread"
      [] k = "send" -> "direct_answer"
      [] k = "send_user" -> "user_id_from_username"
      [] k = "search" -> "user_info_by_username"

UpstreamOutcomes == {"ok", "LoginRequired", "Exception"}

\* what the route answers when the upstream call raises
Raised(k, o) ==
    IF k = "search" THEN "404"
    ELSE IF o = "LoginRequired" THEN "401" ELSE "failed"

\* login_required_handler logs the user out when the session has expired
IdentityAfterExpiry(u, o) == IF o = "LoginRequired" THEN NoUser ELSE u

\* neither the DM functions nor the exception handlers assign the Identity
IdentityAfter(u, o) == u

\* the route calls the client method again when it raised
AfterUpstreamErrorRetry == "dm_call"

\* the except clauses of the route answer at once
AfterUpstreamError == "reply"

DmCall(r) ==
    /\ pc[r] = "dm_call"
    /\ \E o \in UpstreamOutcomes :
          /\ user' = IdentityAfter(user, o)
          /\ IF o = "ok"
             THEN IF kind[r] = "send_user"
                  THEN /\ Set(r, [fr[r] EXCEPT
                                    !.trace = Append(@, FirstCall(kind[r]))])
                       /\ Goto(r, "dm_call2")
                  ELSE /\ Set(r, [fr[r] EXCEPT
                                    !.trace = Append(@, FirstCall(kind[r])),
                                    !.result = "200"])
                       /\ Goto(r, "reply")
             ELSE /\ Set(r, [fr[r] EXCEPT
                               !.trace = Append(@, FirstCall(kind[r])),
                               !.result = Raised(kind[r], o),
                               !.error = o])
                  /\ Goto(r, AfterUpstreamError)
    /\ UNCHANGED <<client, sessionFile, privKey, pubKey, keyGens,
                   upValid, kind, running, issued, bootKeys, faulty, norm>>

\* send_message_to_user: client.direct_send(text, user_ids=[user_id])
DmCall2(r) ==
    /\ pc[r] = "dm_call2"
    /\ \E o \in UpstreamOutcomes :
          /\ Set(r, [fr[r] EXCEPT
                       !.trace = Append(@, "direct_send"),
                       !.result = IF o = "ok" THEN "200"
                                  ELSE Raised(kind[r], o),
                       !.error = IF o = "ok" THEN @ ELSE o])
          /\ user' = IdentityAfter(user, o)
          /\ Goto(r, "reply")
    /\ UNCHANGED <<client, sessionFile, privKey, pubKey, keyGens,
                   upValid, kind, running, issued, bootKeys, faulty, norm>>

-----------------------------------------------------------------------------
(* instagram/parsers.py *)

\* Python truth of an Optional[str], an Optional identifier, a timestamp
Truthy(s) == s # None /\ s # ""
TruthyId(i) == i # NoneId /\ i # 0
Or(a, b) == IF Truthy(a) THEN a ELSE b

\* the sender id is compared as it came, an int against a str
SameIdUnconverted(user_id, pk) == FALSE

\* str(msg.user_id) == logged_in_user_pk
SameId(user_id, pk) == ToString(user_id) = pk

\* the thumbnail is preferred to the video
media_urlThumbnailFirst(m) == Or(Or(m.thumbnail_url, m.video_url), "")

\* str(msg.media.video_url or msg.media.thumbnail_url or "")
media_url(m) == Or(Or(m.video_url, m.thumbnail_url), "")

\* the tag is copied as it came
item_typeVerbatim(t) == t

\* msg.item_type or "unknown"
item_type(t) == Or(t, "unknown")

parse_message(msg, logged_in_user_pk) ==
    [user_id |-> IF TruthyId(msg.user_id) THEN ToString(msg.user_id)
                 ELSE None,
     timestamp |-> msg.timestamp,
     item_type |-> item_type(msg.item_type),
     text |-> msg.text,
     is_sent_by_viewer |->
        IF Truthy(logged_in_user_pk) /\ TruthyId(msg.user_id)
        THEN SameId(msg.user_id, logged_in_user_pk) ELSE FALSE,
     media_url |-> IF msg.media.ref THEN media_url(msg.media) ELSE None,
     media_type |-> IF ~msg.media.ref THEN None
                    ELSE IF Truthy(msg.media.video_url) THEN "video"
                    ELSE "photo",
     link_url |-> IF msg.item_type = "link" /\ msg.link.has
                  THEN msg.link.url ELSE None,
     link_title |-> IF msg.item_type = "link" /\ msg.link.has
                    THEN msg.link.title ELSE None]

parse_user_short(u) == [pk |-> ToString(u.pk), username |-> u.username]

\* the handles are joined without the blank
SeparatorNoBlank == ","

Separator == ", "

RECURSIVE Join(_)
Join(names) ==
    IF Len(names) = 0 THEN ""
    ELSE IF Len(names) = 1 THEN names[1]
    ELSE names[1] \o Separator \o Join(Tail(names))

\* thread.thread_title or "", then the handles when that is empty
thread_title(thread, users) ==
    IF ~Truthy(Or(thread.thread_title, "")) /\ Len(users) > 0
    THEN Join([i \in 1..Len(users) |-> users[i].username])
    ELSE Or(thread.thread_title, "")

parse_thread(thread, logged_in_user_pk) ==
    [thread_title |->
        thread_title(thread, [i \in 1..Len(thread.users) |->
                                 parse_user_short(thread.users[i])]),
     users |-> [i \in 1..Len(thread.users) |->
                  parse_user_short(thread.users[i])],
     last_activity_at |-> thread.last_activity_at,
     messages |-> [i \in 1..Len(thread.messages) |->
                     parse_message(thread.messages[i], logged_in_user_pk)]]

PreviewKeys == {"media", "video", "reel_share", "story_share", "media_share",
                "voice_media", "animated_media", "link", "like"}

\* the table is not consulted
type_previewsBracketed(t) == "[" \o t \o "]"

\* type_previews.get(last_msg_type, f"[{last_msg_type}]")
type_previews(t) ==
    CASE t = "media" -> "Photo"
      [] t = "video" -> "Video"
      [] t = "reel_share" -> "Shared Reel"
      [] t = "story_share" -> "Shared Story"
      [] t = "media_share" -> "Shared Post"
      [] t = "voice_media" -> "Voice Message"
      [] t = "animated_media" -> "GIF"
      [] t = "link" -> "Link"
      [] t = "like" -> "Liked"
      [] OTHER -> "[" \o t \o "]"

\* the message's timestamp is preferred to the thread's last activity
last_msg_timestampMessageFirst(thread) ==
    IF Len(thread.messages) > 0 THEN thread.messages[1].timestamp
    ELSE thread.last_activity_at

\* getattr(thread, 'last_activity_at', None), then the first message's
\* timestamp when that is not there
last_msg_timestamp(thread) ==
    IF thread.last_activity_at = NoTime /\ Len(thread.messages) > 0
    THEN thread.messages[1].timestamp
    ELSE thread.last_activity_at

parse_thread_preview(thread) ==
    [thread_title |->
        thread_title(thread, [i \in 1..Len(thread.users) |->
                                 parse_user_short(thread.users[i])]),
     users |-> [i \in 1..Len(thread.users) |->
                  parse_user_short(thread.users[i])],
     last_message_type |->
        IF Len(thread.messages) = 0 THEN None
        ELSE item_type(thread.messages[1].item_type),
     last_message_timestamp |-> last_msg_timestamp(thread),
     last_message_text |->
        IF Len(thread.messages) = 0 THEN None
        ELSE IF Truthy(thread.messages[1].text) THEN thread.messages[1].text
        ELSE type_previews(item_type(thread.messages[1].item_type))]

\* Upstream records the parsers are applied to
MaxUsers == 2

SenderIds == {NoneId, 0} \cup {UpstreamPk(a) : a \in Accounts}
ViewerPks == {None} \cup {parse_user(account_info(a)).pk : a \in Accounts}
Tags == PreviewKeys \cup {"text", "poll", "", None}
Texts == {None, "", "hello"}
Medias ==
    {NoMedia} \cup {Media(v, t) : v \in {None, "", "https://cdn/v.mp4"},
                                  t \in {None, "", "https://cdn/t.jpg"}}
Links == {NoLink, [has |-> TRUE, url |-> "https://example.org",
                   title |-> "Example"]}
Sent == 1700
Later == 1800
Titles == {None, "", "Team"}
Participants ==
    UNION { [1..n -> {account_info(a) : a \in Accounts}] : n \in 0..MaxUsers }

UpstreamMessages ==
    { [user_id |-> i, item_type |-> t, text |-> x, timestamp |-> Sent,
       media |-> m, link |-> l] :
        i \in SenderIds, t \in Tags, x \in Texts, m \in Medias, l \in Links }

\* the messages of a fetched thread differ in their senders
ThreadMessages ==
    { [NoMessage EXCEPT !.user_id = i, !.item_type = "text",
                        !.text = "hello", !.timestamp = Sent] :
        i \in SenderIds }

\* the most recent message of an inbox thread, and the one before it
RecentMessages ==
    { [NoMessage EXCEPT !.item_type = t, !.text = x, !.timestamp = s] :
        t \in Tags, x \in Texts, s \in {Sent, Later} }
Older == [NoMessage EXCEPT !.item_type = "like", !.text = "older",
                           !.timestamp = Sent - 1]

DetailThreads ==
    { [thread_title |-> c, users |-> us, messages |-> ms,
       last_activity_at |-> Later] :
        c \in Titles, us \in Participants,
        ms \in {<<>>} \cup {<<m>> : m \in ThreadMessages}
                      \cup {<<m, n>> : m \in ThreadMessages,
                                       n \in ThreadMessages} }

InboxThreads ==
    { [thread_title |-> c, users |-> us, messages |-> ms,
       last_activity_at |-> a] :
        c \in Titles, us \in Participants, a \in {NoTime, Later},
        ms \in {<<>>} \cup {<<m>> : m \in RecentMessages}
                      \cup {<<m, Older>> : m \in RecentMessages} }

ParserCalls ==
    { [NoCall EXCEPT !.stage = "in", !.op = "parse_message",
                     !.msg = m, !.pk = k] :
        m \in UpstreamMessages, k \in ViewerPks }
    \cup
    { [NoCall EXCEPT !.stage = "in", !.op = "parse_thread",
                     !.thread = t, !.pk = k] :
        t \in DetailThreads, k \in ViewerPks }
    \cup
    { [NoCall EXCEPT !.stage = "in", !.op = "parse_thread_preview",
                     !.thread = t] : t \in InboxThreads }

server == <<user, client, sessionFile, privKey, pubKey, keyGens, upValid,
            pc, kind, fr, running, issued, bootKeys, faulty>>

\* a parsers.py function is about to be called on an upstream record; the
\* server's own state plays no part in what it returns
InitParsers ==
    /\ user = NoUser
    /\ client = FreshClient
    /\ sessionFile = NoFile
    /\ bootKeys = "both"
    /\ privKey = BootKeyId
    /\ pubKey = BootKeyId
    /\ keyGens = 0
    /\ upValid = {}
    /\ pc = [r \in Reqs |-> "idle"]
    /\ kind = [r \in Reqs |-> None]
    /\ fr = [r \in Reqs |-> EmptyFrame]
    /\ running = NoReq
    /\ issued = <<>>
    /\ faulty = FALSE
    /\ norm \in ParserCalls

ParseMessage ==
    /\ norm.stage = "in" /\ norm.op = "parse_message"
    /\ norm' = [norm EXCEPT !.stage = "out",
                            !.message = parse_message(norm.msg, norm.pk)]
    /\ UNCHANGED server

ParseThread ==
    /\ norm.stage = "in" /\ norm.op = "parse_thread"
    /\ norm' = [norm EXCEPT !.stage = "out",
                            !.detail = parse_thread(norm.thread, norm.pk)]
    /\ UNCHANGED server

ParseThreadPreview ==
    /\ norm.stage = "in" /\ norm.op = "parse_thread_preview"
    /\ norm' = [norm EXCEPT !.stage = "out",
                            !.preview = parse_thread_preview(norm.thread)]
    /\ UNCHANGED server

NextParsers == ParseMessage \/ ParseThread \/ ParseThreadPreview

-----------------------------------------------------------------------------
(* Specification *)

Next ==
    \E r \in Reqs :
       \/ Arrive(r)
       \/ Start(r)
       \/ Reply(r)
       \/ EnsureKeysCheck(r)
       \/ EnsureKeysWritePrivate(r)
       \/ EnsureKeysWritePublic(r)
       \/ PublicKeyEnter(r)
       \/ PublicKeyRead(r)
       \/ DecryptEnter(r)
       \/ Decrypt(r)
       \/ LifespanKeys(r)
       \/ LifespanEnv(r)
       \/ Health(r)
       \/ LoginPlain(r)
       \/ ClientLogin(r)
       \/ AuthLoad(r)
       \/ AuthProbeFeed(r)
       \/ AuthProbeAccount(r)
       \/ AuthFresh(r)
       \/ AuthInfo(r)
       \/ AuthSave(r)
       \/ ClientSet(r)
       \/ LogoutDelete(r)
       \/ LogoutClient(r)
       \/ LogoutClear(r)
       \/ DmEnter(r)
       \/ DmCheck(r)
       \/ DmCall(r)
       \/ DmCall2(r)

Spec == Init /\ [][Next]_vars

SpecFaults == InitFaults /\ [][Next]_vars

\* the normalizers of parsers.py applied to upstream records
SpecParsers == InitParsers /\ [][NextParsers]_vars

-----------------------------------------------------------------------------
(* Properties *)

LoginKinds == {"login", "lifespan"}
InFlight(r) == pc[r] \notin {"idle", "pending", "done"}
Called(r, c) == \E i \in 1..Len(fr[r].trace) : fr[r].trace[i] = c
OkResult(r) == fr[r].result = IF kind[r] = "lifespan" THEN "started" ELSE "200"

\* C1: a DM operation entered while is_authenticated() is false makes no
\* upstream call at any point and ends with the LoginRequired (401) error.
C1_UnauthenticatedDmRejected ==
    \A r \in Reqs :
       kind[r] \in DMKinds /\ fr[r].user0 = NoUser =>
          /\ fr[r].trace = <<>>
          /\ pc[r] \notin {"dm_call", "dm_call2"}
          /\ pc[r] = "reply" =>
                fr[r].result = "401" /\ fr[r].error = "LoginRequired"

C1_Witness ==
    \E r \in Reqs :
       /\ kind[r] = "send_user" /\ pc[r] = "reply"
       /\ fr[r].user0 = NoUser /\ fr[r].result = "401"

C3_AsStated ==
    \A r \in Reqs :
       /\ kind[r] = "login" /\ pc[r] = "reply"
       /\ fr[r].password = "" /\ fr[r].enc = EmptyEnc
       /\ fr[r].file0.kind = "blob" /\ fr[r].file0.acct \in upValid
       => /\ fr[r].result = "200"
          /\ user.username = fr[r].file0.acct

\* C3 amended: when a saved SessionBlob exists and the validity probe
\* succeeds, the login (whatever password it was given) succeeds, installs
\* the Identity derived from the probe, makes no fresh upstream login call,
\* never invokes save and leaves the SessionBlob unchanged; a request with no
\* password at all is answered 400 before the session is looked at.
C3_RestoreNeedsNoFreshLogin ==
    \A r \in Reqs :
       /\ kind[r] \in LoginKinds /\ fr[r].probe = "ok" =>
             /\ fr[r].file0.kind = "blob"
             /\ fr[r].success = "true"
             /\ fr[r].u.username = fr[r].file0.acct
             /\ fr[r].u.pk = ToString(UpstreamPk(fr[r].file0.acct))
             /\ ~Called(r, "login")
             /\ ~fr[r].saved
             /\ sessionFile = fr[r].file0
             /\ pc[r] = "reply" => OkResult(r) /\ user = fr[r].u
       /\ kind[r] = "login" /\ pc[r] = "reply"
          /\ fr[r].password = "" /\ fr[r].enc = EmptyEnc =>
             /\ fr[r].result = "400"
             /\ fr[r].trace = <<>>
             /\ user = fr[r].user0 /\ client = fr[r].client0

C3_Witness ==
    \E r \in Reqs :
       /\ kind[r] = "login" /\ pc[r] = "reply" /\ fr[r].probe = "ok"
       /\ fr[r].pw # CorrectPassword(fr[r].username)
       /\ fr[r].username # fr[r].file0.acct
       /\ fr[r].result = "200"

InLogin(r) ==
    \/ kind[r] = "login" /\ InFlight(r)
    \/ kind[r] = "lifespan"
          /\ pc[r] \in {"cl_login", "al_load", "al_feed", "al_acct",
                        "al_fresh", "al_info", "al_save", "cl_set"}

\* C6: no two login attempts are ever in progress together: while one is
\* between its start and the installation of its outcome every other request
\* is waiting or finished, so a login that waited starts from that outcome.
C6_LoginsNeverOverlap ==
    \A r1, r2 \in Reqs :
       r1 # r2 /\ InLogin(r1) =>
          /\ ~InLogin(r2)
          /\ ~InFlight(r2)

C6_Witness ==
    \E r, q \in Reqs :
       /\ kind[r] = "login" /\ pc[r] = "al_fresh"
       /\ fr[r].user0 # NoUser
       /\ pc[q] = "pending"

InLogout(r) ==
    kind[r] = "logout" /\ pc[r] \in {"lo_delete", "lo_client", "lo_clear"}

\* a DM operation that has read the Identity and not yet returned
InDm(r) ==
    kind[r] \in DMKinds /\ pc[r] \in {"dm_check", "dm_call", "dm_call2"}

\* C7: a logout in progress and a DM operation in progress never coexist,
\* and a DM operation that passed its check runs to its return with the
\* Identity and the connection it started with still installed.
C7_LogoutExcludesDm ==
    /\ \A r1, r2 \in Reqs : ~(InLogout(r1) /\ InDm(r2))
    /\ \A r \in Reqs :
          /\ kind[r] \in DMKinds
          /\ pc[r] \in {"dm_check", "dm_call", "dm_call2", "reply"}
          /\ fr[r].lu # NoUser
          => user = fr[r].lu /\ client = fr[r].client0

C7_Witness ==
    \E r, q \in Reqs :
       /\ kind[r] = "send_user" /\ pc[r] = "dm_call2"
       /\ fr[r].lu # NoUser
       /\ pc[q] = "pending"

\* C8: in a process started with no key files, exactly one key pair is ever
\* generated, both persisted blobs are of that pair once startup is over, and
\* every caller of get_public_key_pem obtains the same public key.
C8_OneKeyPair ==
    /\ \A i, j \in 1..Len(issued) : issued[i] = issued[j]
    /\ bootKeys = "none" => keyGens <= 1
    /\ pc[Lifespan] = "done" =>
          /\ privKey # 0 /\ pubKey = privKey
          /\ \A i \in 1..Len(issued) : issued[i] = pubKey
          /\ bootKeys = "none" => keyGens = 1 /\ pubKey = keyGens + 1
    /\ \A r \in Reqs :
          kind[r] = "public_key" /\ pc[r] = "reply" => fr[r].key = pubKey

C8_Witness ==
    \E r \in Reqs :
       /\ kind[r] = "public_key" /\ pc[r] = "reply"
       /\ bootKeys = "none" /\ keyGens = 1
       /\ issued = <<fr[r].key, fr[r].key>>

\* C9: once both key files are on storage no step changes either of them,
\* and every public key handed out afterwards is the persisted one.
C9_KeyPairImmutable ==
    [][ privKey # 0 /\ pubKey # 0 =>
           /\ privKey' = privKey
           /\ pubKey' = pubKey
           /\ issued' \in {issued, Append(issued, pubKey)} ]_vars

C9_Witness ==
    \E r \in Reqs :
       /\ kind[r] = "login" /\ pc[r] = "reply"
       /\ fr[r].enc.kind = "cipher" /\ fr[r].enc.k = privKey
       /\ fr[r].success = "true"
       /\ issued = <<pubKey>>
       /\ keyGens = 1

\* C10: the Identity changes only in the step that installs the result of a
\* login that returned success (to a present Identity) and in the step of
\* logout that clears it (to absent); no other step changes it.
C10_IdentitySetByLoginClearedByLogout ==
    [][ user' # user =>
           \E r \in Reqs :
              \/ /\ kind[r] \in LoginKinds
                 /\ pc[r] = "cl_set" /\ pc'[r] = "reply"
                 /\ fr[r].success = "true"
                 /\ user' = fr[r].u /\ user' # NoUser
              \/ /\ kind[r] = "logout"
                 /\ pc[r] = "lo_clear" /\ pc'[r] = "reply"
                 /\ user' = NoUser ]_vars

C10_Witness ==
    \E r \in Reqs :
       /\ kind[r] = "login" /\ pc[r] = "reply"
       /\ fr[r].success = "false" /\ Called(r, "login")
       /\ fr[r].user0 # NoUser /\ user = fr[r].user0

\* an encrypted_password field that is present and does not open to text
\* under the persisted private key
Undecryptable(e) ==
    \/ e.kind = "garbage"
    \/ e.kind = "cipher" /\ (e.k # privKey \/ e.p = NonText)

\* C11: a login request whose encrypted_password is present and cannot be
\* decrypted is answered 400 "Failed to decrypt password"; the plaintext
\* password of the same request is never used, no restore, probe or upstream
\* login is made, and Identity, client and session file stay as they were.
C11_UndecryptableRejected ==
    \A r \in Reqs :
       kind[r] = "login" /\ Undecryptable(fr[r].enc) =>
          /\ pc[r] \in {"lg_pw", "ek_check", "dec", "reply"}
          /\ fr[r].pw = ""
          /\ fr[r].trace = <<>>
          /\ user = fr[r].user0
          /\ client = fr[r].client0
          /\ sessionFile = fr[r].file0
          /\ pc[r] = "reply" =>
                /\ fr[r].result = "400"
                /\ fr[r].error = "Failed to decrypt password"

C11_Witness ==
    \E r \in Reqs :
       /\ kind[r] = "login" /\ pc[r] = "reply"
       /\ fr[r].enc = Cipher(ForeignKey, CorrectPassword(fr[r].username))
       /\ fr[r].password = CorrectPassword(fr[r].username)
       /\ fr[r].result = "400"
       /\ sessionFile = Blob(fr[r].username)

\* C12: a failed fresh upstream login falls into exactly one of the five
\* classes; each of the four classified ones answers its own fixed message,
\* which is never the text of the exception; only the unknown class answers
\* the exception's text; and the session file is not written.
C12_FreshFailureClassified ==
    \A r \in Reqs :
       kind[r] \in LoginKinds /\ fr[r].fresh \notin {None, "ok"} =>
          /\ fr[r].fresh \in FreshFailures
          /\ fr[r].success = "false"
          /\ fr[r].fresh = "BadPassword" => fr[r].error = "Invalid password"
          /\ fr[r].fresh = "ChallengeRequired" => fr[r].error =
               "Challenge required - please verify your account in the Instagram app"
          /\ fr[r].fresh = "TwoFactorRequired" => fr[r].error =
               "Two-factor authentication required - not yet supported"
          /\ fr[r].fresh = "PleaseWaitFewMinutes" => fr[r].error =
               "Rate limited - please wait a few minutes and try again"
          /\ fr[r].fresh # "Exception" =>
               fr[r].error # ExceptionText(fr[r].fresh)
          /\ fr[r].fresh = "Exception" =>
               fr[r].error = ExceptionText(fr[r].fresh)
          /\ ~fr[r].saved
          /\ sessionFile = fr[r].file0

C12_Witness ==
    \E r \in Reqs :
       /\ kind[r] = "login" /\ pc[r] = "reply"
       /\ fr[r].fresh = "ChallengeRequired"
       /\ fr[r].pw = CorrectPassword(fr[r].username)
       /\ fr[r].result = "401"
       /\ fr[r].error =
            "Challenge required - please verify your account in the Instagram app"
       /\ sessionFile = NoFile

\* the login route is past decrypt_password
PastDecrypt(r) == pc[r] \notin {"lg_pw", "ek_check", "ek_wpriv", "ek_wpub", "dec"}

C14_LimitClamped ==
    \A r \in Reqs :
       kind[r] \in {"inbox", "thread"} /\ pc[r] \in {"dm_check", "dm_call", "reply"} =>
          /\ fr[r].amount \in 1..100
          /\ fr[r].limit \in 1..100 => fr[r].amount = fr[r].limit
          /\ fr[r].limit < 1 => fr[r].amount = 1
          /\ fr[r].limit > 100 => fr[r].amount = 100

C14_Witness ==
    \E r \in Reqs :
       /\ kind[r] = "thread" /\ pc[r] = "reply"
       /\ Called(r, "direct_thread")
       /\ fr[r].limit = 0 /\ fr[r].amount = 1
       /\ fr[r].result = "200"

\* C15: is_authenticated() and get_current_user(), as GET /health calls
\* them, change nothing of the Identity, the client, the session file, the
\* key files or the upstream, make no upstream call, and agree: the first
\* is true exactly when the second is not absent.
C15_ReadsArePure ==
    [][ \A r \in Reqs :
           kind[r] = "health" /\ pc[r] = "h_read" /\ pc'[r] = "reply" =>
              /\ UNCHANGED <<user, client, sessionFile, privKey, pubKey,
                             keyGens, upValid, issued>>
              /\ fr'[r].trace = <<>>
              /\ fr'[r].u = user
              /\ (fr'[r].success = "true") <=> (fr'[r].u # NoUser) ]_vars

C15_Witness ==
    \E r \in Reqs :
       /\ kind[r] = "health" /\ pc[r] = "reply"
       /\ fr[r].success = "true" /\ fr[r].u.username = "alice"
       /\ user = fr[r].u
       /\ client.st = "dirty"

Returned(op) == norm.stage = "out" /\ norm.op = op

\* C16: parse_message sets is_sent_by_viewer exactly when the sender id of
\* the upstream message, written as a string, is the Identity's pk string;
\* it is false when either the pk passed in or the sender id is absent.
\* The same holds for every message of a thread parse_thread normalizes.
C16_SentByViewer ==
    /\ Returned("parse_message") =>
          /\ norm.message.is_sent_by_viewer <=>
                /\ norm.pk # None
                /\ norm.msg.user_id # NoneId
                /\ ToString(norm.msg.user_id) = norm.pk
          /\ norm.pk = None \/ norm.msg.user_id = NoneId =>
                ~norm.message.is_sent_by_viewer
    /\ Returned("parse_thread") =>
          \A i \in 1..Len(norm.thread.messages) :
             norm.detail.messages[i].is_sent_by_viewer <=>
                /\ norm.pk # None
                /\ norm.thread.messages[i].user_id # NoneId
                /\ ToString(norm.thread.messages[i].user_id) = norm.pk

C16_Witness ==
    /\ Returned("parse_thread")
    /\ norm.pk = "1002"
    /\ Len(norm.thread.messages) = 2
    /\ norm.thread.messages[1].user_id = 1002
    /\ norm.thread.messages[2].user_id = 1001
    /\ norm.detail.messages[1].is_sent_by_viewer
    /\ ~norm.detail.messages[2].is_sent_by_viewer

\* the tags the data model names: text, and the keys of the preview table
RecognizedTags == PreviewKeys \cup {"text"}

\* C17 as stated: the normalized item_type is "unknown" whenever the
\* upstream tag is missing or is not a recognized tag, and a recognized tag
\* is passed through unchanged.
C17_AsStated ==
    /\ Returned("parse_message") =>
          norm.message.item_type =
             IF norm.msg.item_type \in RecognizedTags
             THEN norm.msg.item_type ELSE "unknown"
    /\ Returned("parse_thread_preview") /\ Len(norm.thread.messages) > 0 =>
          norm.preview.last_message_type =
             IF norm.thread.messages[1].item_type \in RecognizedTags
             THEN norm.thread.messages[1].item_type ELSE "unknown"

\* C17: the normalized item_type is "unknown" exactly when the upstream tag
\* is missing or empty; every other tag, recognized or not, is passed
\* through unchanged, in parse_message and in the preview's message type.
C17_MissingTagIsUnknown ==
    /\ Returned("parse_message") =>
          norm.message.item_type =
             IF norm.msg.item_type \in {None, ""}
             THEN "unknown" ELSE norm.msg.item_type
    /\ Returned("parse_thread_preview") /\ Len(norm.thread.messages) > 0 =>
          norm.preview.last_message_type =
             IF norm.thread.messages[1].item_type \in {None, ""}
             THEN "unknown" ELSE norm.thread.messages[1].item_type

C17_Witness ==
    /\ Returned("parse_message")
    /\ norm.msg.item_type = "poll"
    /\ norm.message.item_type = "poll"
    /\ norm.msg.text = None

\* an upstream URL that is there and not empty
Present(u) == u \notin {None, ""}

\* C18: parse_message leaves media_type and media_url absent when the
\* message has no media; with media, media_type is "video" when a video URL
\* is present and "photo" otherwise, and media_url is the video URL, else
\* the thumbnail URL, else the empty string, never absent.
C18_MediaFields ==
    Returned("parse_message") =>
       IF ~norm.msg.media.ref
       THEN norm.message.media_type = None /\ norm.message.media_url = None
       ELSE /\ norm.message.media_type =
                  IF Present(norm.msg.media.video_url) THEN "video"
                  ELSE "photo"
            /\ norm.message.media_url =
                  IF Present(norm.msg.media.video_url)
                  THEN norm.msg.media.video_url
                  ELSE IF Present(norm.msg.media.thumbnail_url)
                  THEN norm.msg.media.thumbnail_url
                  ELSE ""
            /\ norm.message.media_url # None

C18_Witness ==
    /\ Returned("parse_message")
    /\ norm.msg.media = Media(None, "https://cdn/t.jpg")
    /\ norm.message.media_type = "photo"
    /\ norm.message.media_url = "https://cdn/t.jpg"

\* the handles of the first n participants, in upstream order, with ", "
\* between neighbours
RECURSIVE HandlesInOrder(_, _)
HandlesInOrder(us, n) ==
    IF n = 0 THEN ""
    ELSE IF n = 1 THEN us[1].username
    ELSE HandlesInOrder(us, n - 1) \o ", " \o us[n].username

TitleOf(thread) ==
    IF Present(thread.thread_title) THEN thread.thread_title
    ELSE HandlesInOrder(thread.users, Len(thread.users))

\* C19: in parse_thread and in parse_thread_preview alike, a non-empty
\* upstream title is kept verbatim, and otherwise the title is the handles
\* of the participants joined with ", " in upstream order, which is the
\* empty string when there are none.
C19_ThreadTitle ==
    /\ Returned("parse_thread") =>
          norm.detail.thread_title = TitleOf(norm.thread)
    /\ Returned("parse_thread_preview") =>
          norm.preview.thread_title = TitleOf(norm.thread)

C19_Witness ==
    /\ Returned("parse_thread_preview")
    /\ norm.thread.thread_title = ""
    /\ Len(norm.thread.users) = 2
    /\ norm.thread.users[1].username = "bob"
    /\ norm.thread.users[2].username = "alice"
    /\ norm.preview.thread_title = "bob, alice"

\* the labels of the list view, by item type
PreviewLabels ==
    {<<"media", "Photo">>, <<"video", "Video">>,
     <<"reel_share", "Shared Reel">>, <<"story_share", "Shared Story">>,
     <<"media_share", "Shared Post">>, <<"voice_media", "Voice Message">>,
     <<"animated_media", "GIF">>, <<"link", "Link">>, <<"like", "Liked">>}

LabelOrBracketed(t) ==
    IF \E p \in PreviewLabels : p[1] = t
    THEN (CHOOSE p \in PreviewLabels : p[1] = t)[2]
    ELSE "[" \o t \o "]"

\* C20: parse_thread_preview leaves preview text and preview type absent
\* for a thread without messages; otherwise the text is the first message's
\* own text when it has one, else the label of its item type, else the item
\* type in square brackets when the table has no label for it.
C20_PreviewText ==
    Returned("parse_thread_preview") =>
       IF Len(norm.thread.messages) = 0
       THEN /\ norm.preview.last_message_text = None
            /\ norm.preview.last_message_type = None
       ELSE /\ norm.preview.last_message_type # None
            /\ norm.preview.last_message_text =
                  IF Present(norm.thread.messages[1].text)
                  THEN norm.thread.messages[1].text
                  ELSE LabelOrBracketed(norm.preview.last_message_type)

C20_Witness ==
    /\ Returned("parse_thread_preview")
    /\ Len(norm.thread.messages) = 2
    /\ norm.thread.messages[1].item_type = "reel_share"
    /\ norm.thread.messages[1].text = ""
    /\ norm.thread.messages[2].text = "older"
    /\ norm.preview.last_message_text = "Shared Reel"

\* C21: the preview timestamp of parse_thread_preview is the thread's
\* last_activity_at whenever that is present, with or without messages; it
\* is the first message's timestamp only when last_activity_at is absent
\* and the thread has messages; it is absent when both are absent.
C21_PreviewTimestamp ==
    Returned("parse_thread_preview") =>
       /\ norm.thread.last_activity_at # NoTime =>
             norm.preview.last_message_timestamp = norm.thread.last_activity_at
       /\ norm.thread.last_activity_at = NoTime
             /\ Len(norm.thread.messages) > 0 =>
             norm.preview.last_message_timestamp =
                norm.thread.messages[1].timestamp
       /\ norm.thread.last_activity_at = NoTime
             /\ Len(norm.thread.messages) = 0 =>
             norm.preview.last_message_timestamp = NoTime

C21_Witness ==
    /\ Returned("parse_thread_preview")
    /\ norm.thread.last_activity_at = Later
    /\ Len(norm.thread.messages) = 2
    /\ norm.thread.messages[1].timestamp = Sent
    /\ norm.preview.last_message_timestamp = Later

\* C22 as stated: a key pair is generated only when both key files are
\* absent, and a key file that exists is never overwritten.
C22_AsStated ==
    [][ /\ keyGens' # keyGens => privKey = 0 /\ pubKey = 0
        /\ privKey # 0 => privKey' = privKey
        /\ pubKey # 0 => pubKey' = pubKey ]_vars

\* C22: ensure_keys_exist generates a key pair exactly when at least one of
\* the two key files is absent, and then writes both files with the new
\* pair, overwriting the one that was there; when both are present it
\* writes nothing.  Once it has returned, both files hold the same pair.
C22_GeneratedWhenIncomplete ==
    [][ /\ keyGens' # keyGens => privKey = 0 \/ pubKey = 0
        /\ privKey # 0 /\ pubKey # 0 =>
              /\ keyGens' = keyGens
              /\ privKey' = privKey /\ pubKey' = pubKey
        /\ privKey' # privKey => privKey' = keyGens + 1
        /\ pubKey' # pubKey => pubKey' = keyGens + 1
        /\ \A r \in Reqs :
              pc[r] = "ek_check" /\ pc'[r] = "ek_wpriv" <=>
                 pc[r] = "ek_check" /\ pc'[r] # "ek_check"
                    /\ (privKey = 0 \/ pubKey = 0)
        /\ \A r \in Reqs :
              pc[r] \in {"ek_check", "ek_wpub"} /\ pc'[r] = fr[r].ret =>
                 privKey' # 0 /\ pubKey' = privKey' ]_vars

C22_Witness ==
    /\ bootKeys = "private_only"
    /\ keyGens = 1
    /\ privKey = 2 /\ pubKey = 2
    /\ pc[Lifespan] = "ls_env"

\* C23: when writing the session file fails during a fresh login that the
\* upstream accepted, nothing is raised: login returns success, the Identity
\* of the account is installed, and the session file is what it was before
\* the login.
C23_SaveFailureSwallowed ==
    \A r \in Reqs :
       kind[r] \in LoginKinds /\ fr[r].saveError =>
          /\ fr[r].fresh = "ok"
          /\ fr[r].success = "true"
          /\ fr[r].error = None
          /\ fr[r].u = parse_user(account_info(fr[r].username))
          /\ sessionFile = fr[r].file0
          /\ pc[r] = "reply" => OkResult(r) /\ user = fr[r].u

C23_Witness ==
    \E r \in Reqs :
       /\ kind[r] = "login" /\ pc[r] = "reply"
       /\ fr[r].saveError
       /\ fr[r].result = "200"
       /\ user.username = "alice"
       /\ sessionFile = NoFile

\* how often a handler has made the upstream call c
Count(r, c) == Cardinality({i \in 1..Len(fr[r].trace) : fr[r].trace[i] = c})

\* C24: nothing is retried.  One login makes at most one validity probe and
\* at most one fresh upstream login, and no fresh login at all once the
\* probe has succeeded; a DM operation makes each of its upstream calls at
\* most once; and a failure is what the same request answers.
C24_NoRetries ==
    \A r \in Reqs :
       /\ kind[r] \in LoginKinds =>
             /\ Count(r, "get_timeline_feed") <= 1
             /\ Count(r, "login") <= 1
             /\ Count(r, "account_info") <=
                   Count(r, "get_timeline_feed") + Count(r, "login")
             /\ fr[r].probe = "ok" => Count(r, "login") = 0
             /\ fr[r].fresh \in FreshFailures =>
                   /\ fr[r].success = "false" /\ fr[r].error # None
                   /\ pc[r] = "reply" /\ kind[r] = "login" =>
                         fr[r].result = "401"
       /\ kind[r] \in DMKinds =>
             /\ \A c \in {"direct_threads", "direct_thread", "direct_answer",
                          "user_id_from_username", "direct_send",
                          "user_info_by_username"} : Count(r, c) <= 1
             /\ Len(fr[r].trace) <= 2
             /\ fr[r].trace # <<>> /\ fr[r].error \in UpstreamOutcomes =>
                   /\ pc[r] = "reply"
                   /\ fr[r].result = Raised(kind[r], fr[r].error)

C24_Witness ==
    \E r \in Reqs :
       /\ kind[r] = "login" /\ pc[r] = "reply"
       /\ fr[r].trace = <<"get_timeline_feed", "account_info", "login">>
       /\ fr[r].fresh = "PleaseWaitFewMinutes"
       /\ fr[r].result = "401"

PastEnter(r) == pc[r] \in {"dm_check", "dm_call", "dm_call2", "reply"}

\* C25 as stated: the handle passed to the upstream is the requested handle
\* unchanged when it has no leading "@", and with exactly that one character
\* removed when it has one.
C25_AsStated ==
    \A r \in Reqs :
       kind[r] \in {"send_user", "search"} /\ PastEnter(r) =>
          fr[r].target =
             IF fr[r].handle # <<>> /\ fr[r].handle[1] = "@"
             THEN Tail(fr[r].handle) ELSE fr[r].handle

\* C25: the handle passed to the upstream is the requested handle without
\* all of its leading "@" characters: a handle that does not start with "@"
\* is passed unchanged, and nothing after the leading run of "@" is altered.
C25_LeadingAtsStripped ==
    \A r \in Reqs :
       kind[r] \in {"send_user", "search"} /\ PastEnter(r) =>
          \E n \in 0..Len(fr[r].handle) :
             /\ \A i \in 1..n : fr[r].handle[i] = "@"
             /\ n < Len(fr[r].handle) => fr[r].handle[n + 1] # "@"
             /\ fr[r].target = SubSeq(fr[r].handle, n + 1, Len(fr[r].handle))

C25_Witness ==
    \E r \in Reqs :
       /\ kind[r] = "send_user" /\ pc[r] = "reply"
       /\ fr[r].handle = <<"@", "@", "b", "o", "b">>
       /\ fr[r].target = <<"b", "o", "b">>
       /\ fr[r].trace = <<"user_id_from_username", "direct_send">>
       /\ fr[r].result = "200"

\* C26 as stated: between handlers, whenever the Identity is present the
\* client object is the connection on which that Identity's login or
\* restore succeeded: logged in, and logged in as the Identity's account.
C26_IdentityMatchesConnection ==
    running = NoReq /\ user # NoUser =>
       /\ client.st = "live"
       /\ client.acct = user.username

\* C27: when the saved session is loaded and its probe succeeds, the only
\* upstream calls of the login are get_timeline_feed() and account_info(),
\* neither of which is given the username or the password of the request,
\* and the Identity installed is the one of the session file's account,
\* whichever username was asked for.
C27_RestoreIgnoresCredentials ==
    \A r \in Reqs :
       kind[r] \in LoginKinds /\ fr[r].probe = "ok" =>
          /\ fr[r].trace = <<"get_timeline_feed", "account_info">>
          /\ fr[r].file0.kind = "blob"
          /\ fr[r].u = parse_user(account_info(fr[r].file0.acct))
          /\ client = [st |-> "live", acct |-> fr[r].file0.acct]
          /\ pc[r] = "reply" => user = parse_user(account_info(fr[r].file0.acct))

C27_Witness ==
    \E r \in Reqs :
       /\ kind[r] = "login" /\ pc[r] = "reply" /\ fr[r].probe = "ok"
       /\ fr[r].username = "bob" /\ fr[r].pw = "pw_bob"
       /\ fr[r].file0 = Blob("alice")
       /\ user.username = "alice"
       /\ fr[r].user0 = NoUser

\* C28: no step of a DM operation, whether its upstream call succeeds,
\* fails or reports an expired session, changes the Identity, the session
\* file or the key files, so is_authenticated() answers after the operation
\* what it answered before.
C28_DmLeavesStateAlone ==
    [][ \A r \in Reqs :
           kind[r] \in DMKinds /\ pc'[r] # pc[r] =>
              /\ user' = user
              /\ sessionFile' = sessionFile
              /\ privKey' = privKey /\ pubKey' = pubKey
              /\ pc'[r] = "reply" =>
                    /\ user' = fr'[r].user0
                    /\ sessionFile' = fr'[r].file0
                    /\ (user' # NoUser) <=> (fr'[r].user0 # NoUser) ]_vars

C28_Witness ==
    \E r \in Reqs :
       /\ kind[r] = "inbox" /\ pc[r] = "reply"
       /\ fr[r].trace = <<"direct_threads">>
       /\ fr[r].error = "LoginRequired" /\ fr[r].result = "401"
       /\ user.username = "alice" /\ user = fr[r].user0
       /\ sessionFile = Blob("alice")

====
